---- MODULE Spec2Model ----
(***************************************************************************)
(* Model of leautils.dice_set_freqs(n, m): the generator that enumerates   *)
(* the unordered outcomes of N M-sided dice with their relative            *)
(* frequencies.  A generator invocation is a process; two invocations      *)
(* (Gens) are kept so that interleaved iteration can be examined.  Each    *)
(* invocation has its own frame: every local of the function is a          *)
(* function over Gens.                                                     *)
(***************************************************************************)
EXTENDS Integers, Sequences, FiniteSets

\* Largest die count and side count explored.
MaxN == 4
MaxM == 6
\* Largest die count and side count explored with two interleaved invocations.
MaxN2 == 3
MaxM2 == 3
\* Largest die count and side count for which every roll of the dice is enumerated.
MaxRollN == 3
MaxRollM == 4

Gens == {1, 2}

VARIABLES
    n,             \* argument n (die count), the same for both invocations
    m,             \* argument m (side count), the same for both invocations
    pc,            \* position of each generator frame
    permutations,  \* local: factorial(n)
    it_state,      \* combinations_with_replacement iterator: "new", "active", "exhausted"
    indices,       \* combinations_with_replacement iterator: 0-based indices into the pool
    outcome,       \* local: the tuple of the current iteration of the outer loop
    weight,        \* local
    run_len,       \* local
    prev_roll,     \* local: <<>> is None, <<v>> is the roll v
    pos,           \* position of the inner loop "for roll in outcome" (1-based)
    yielded        \* the pairs each invocation has yielded so far, in order

vars == <<n, m, pc, permutations, it_state, indices, outcome, weight,
          run_len, prev_roll, pos, yielded>>

----------------------------------------------------------------------------
\* Mutant: the product stops one factor short, (k-1)!.
RECURSIVE FactorialShort(_)
FactorialShort(k) == IF k <= 1 THEN 1 ELSE (k - 1) * FactorialShort(k - 1)

\* math.factorial for k >= 0 (it raises ValueError for k < 0, see Begin).
RECURSIVE Factorial(_)
Factorial(k) == IF k <= 0 THEN 1 ELSE k * Factorial(k - 1)

\* Mutant: zero is rejected as well.
FactorialRaisesOnZero(k) == k <= 0

FactorialRaises(k) == k < 0

\* Mutant: range(1, m), the last face is missing.
PoolShort(mm) == [i \in 1..(mm - 1) |-> i]

\* range(1, m+1) as a tuple: the pool of combinations_with_replacement.
Pool(mm) == [i \in 1..mm |-> i]

\* The tuple combinations_with_replacement builds from its indices.
TupleOf(pool, idx) == [j \in 1..Len(idx) |-> pool[idx[j] + 1]]

\* itertools.combinations_with_replacement is library code, called at line 14;
\* it is modelled by the algorithm its documentation gives as equivalent:
\*     indices = [0] * r; yield; then repeatedly find the rightmost i with
\*     indices[i] != n - 1 (return when there is none) and set
\*     indices[i:] = [indices[i] + 1] * (r - i); yield.
\* First step of combinations_with_replacement(pool, r): nothing when the pool
\* is empty and r > 0, else indices = [0] * r.
CwrFirstEmpty(pool, r) == Len(pool) = 0 /\ r > 0
CwrFirstIndices(r) == [j \in 1..r |-> 0]

\* Later steps: the rightmost index that is not at its maximum is incremented
\* and every index to its right is set to the same value.
CwrMovable(idx, npool) == {i \in 1..Len(idx) : idx[i] /= npool - 1}
\* Mutant: the leftmost movable index is taken.
CwrPivotLeftmost(idx, npool) ==
    CHOOSE i \in CwrMovable(idx, npool) : \A j \in CwrMovable(idx, npool) : i <= j

CwrPivot(idx, npool) ==
    CHOOSE i \in CwrMovable(idx, npool) : \A j \in CwrMovable(idx, npool) : j <= i
\* Mutant: the indices right of the pivot restart at 0, as in a product.
CwrNextIndicesProduct(idx, npool) ==
    LET i == CwrPivot(idx, npool)
    IN  [j \in 1..Len(idx) |-> IF j < i THEN idx[j]
                               ELSE IF j = i THEN idx[i] + 1 ELSE 0]

CwrNextIndices(idx, npool) ==
    LET i == CwrPivot(idx, npool)
    IN  [j \in 1..Len(idx) |-> IF j < i THEN idx[j] ELSE idx[i] + 1]

\* Whether a step of the iterator ends the iteration, and the indices it
\* moves to when it does not.
CwrStops(st, idx, pool, r) ==
    \/ st = "exhausted"
    \/ st = "new" /\ CwrFirstEmpty(pool, r)
    \/ st = "active" /\ CwrMovable(idx, Len(pool)) = {}
CwrIndices(st, idx, pool, r) ==
    IF st = "new" THEN CwrFirstIndices(r) ELSE CwrNextIndices(idx, Len(pool))

----------------------------------------------------------------------------
Init ==
    /\ n \in -1..MaxN
    /\ m \in 0..MaxM
    /\ pc = [g \in Gens |-> "start"]
    /\ permutations = [g \in Gens |-> 0]
    /\ it_state = [g \in Gens |-> "new"]
    /\ indices = [g \in Gens |-> <<>>]
    /\ outcome = [g \in Gens |-> <<>>]
    /\ weight = [g \in Gens |-> 0]
    /\ run_len = [g \in Gens |-> 0]
    /\ prev_roll = [g \in Gens |-> <<>>]
    /\ pos = [g \in Gens |-> 1]
    /\ yielded = [g \in Gens |-> <<>>]

\* First next() on the generator: permutations = factorial(n), and the
\* iterator of the outer loop is created.
Begin(g) ==
    /\ pc[g] = "start"
    /\ IF FactorialRaises(n)
       THEN /\ pc' = [pc EXCEPT ![g] = "raised"]
            /\ UNCHANGED permutations
       ELSE /\ pc' = [pc EXCEPT ![g] = "next"]
            /\ permutations' = [permutations EXCEPT ![g] = Factorial(n)]
    /\ UNCHANGED <<n, m, it_state, indices, outcome, weight, run_len,
                   prev_roll, pos, yielded>>

\* Mutant: one iterator for all invocations (created once, outside the frame).
NextOutcomeSharedIterator(g) ==
    /\ pc[g] = "next"
    /\ LET pool == Pool(m)
           stop == CwrStops(it_state[g], indices[g], pool, n)
           idx  == CwrIndices(it_state[g], indices[g], pool, n)
       IN  IF stop
           THEN /\ it_state' = [h \in Gens |-> "exhausted"]
                /\ pc' = [pc EXCEPT ![g] = "done"]
                /\ UNCHANGED <<indices, outcome, weight, run_len, prev_roll, pos>>
           ELSE /\ it_state' = [h \in Gens |-> "active"]
                /\ indices' = [h \in Gens |-> idx]
                /\ outcome' = [outcome EXCEPT ![g] = TupleOf(pool, idx)]
                /\ weight' = [weight EXCEPT ![g] = permutations[g]]
                /\ run_len' = [run_len EXCEPT ![g] = 0]
                /\ prev_roll' = [prev_roll EXCEPT ![g] = <<>>]
                /\ pos' = [pos EXCEPT ![g] = 1]
                /\ pc' = [pc EXCEPT ![g] = "scan"]
    /\ UNCHANGED <<n, m, permutations, yielded>>

\* The outer loop asks the iterator for the next outcome; with one, the
\* locals of the body are initialised; without, the generator returns.
NextOutcome(g) ==
    /\ pc[g] = "next"
    /\ LET pool == Pool(m)
           stop == CwrStops(it_state[g], indices[g], pool, n)
           idx  == CwrIndices(it_state[g], indices[g], pool, n)
       IN  IF stop
           THEN /\ it_state' = [it_state EXCEPT ![g] = "exhausted"]
                /\ pc' = [pc EXCEPT ![g] = "done"]
                /\ UNCHANGED <<indices, outcome, weight, run_len, prev_roll, pos>>
           ELSE /\ it_state' = [it_state EXCEPT ![g] = "active"]
                /\ indices' = [indices EXCEPT ![g] = idx]
                /\ outcome' = [outcome EXCEPT ![g] = TupleOf(pool, idx)]
                /\ weight' = [weight EXCEPT ![g] = permutations[g]]
                /\ run_len' = [run_len EXCEPT ![g] = 0]
                /\ prev_roll' = [prev_roll EXCEPT ![g] = <<>>]
                /\ pos' = [pos EXCEPT ![g] = 1]
                /\ pc' = [pc EXCEPT ![g] = "scan"]
    /\ UNCHANGED <<n, m, permutations, yielded>>

\* Mutant: the run length is never reset.
NewRunLenNoReset(roll, prev, len) == len + 1

\* Mutant: the run length is reset to 1 and then incremented.
NewRunLenResetOne(roll, prev, len) == (IF <<roll>> /= prev THEN 1 ELSE len) + 1

\* The run length after a roll: reset to 0 when the roll differs from the
\* previous one (None differs from every roll), then incremented.
NewRunLen(roll, prev, len) == (IF <<roll>> /= prev THEN 0 ELSE len) + 1

\* Mutant: the division starts at the third roll of a run.
NewWeightSkipTwo(w, len) == IF len > 2 THEN w \div len ELSE w

\* Mutant: the divisor is one more than the run length.
NewWeightDivSucc(w, len) == IF len > 1 THEN w \div (len + 1) ELSE w

\* The weight after a roll: floor-divided by the run length when it exceeds 1.
NewWeight(w, len) == IF len > 1 THEN w \div len ELSE w

\* One iteration of "for roll in outcome".
ScanStep(g) ==
    /\ pc[g] = "scan"
    /\ pos[g] <= Len(outcome[g])
    /\ LET roll == outcome[g][pos[g]]
           len  == NewRunLen(roll, prev_roll[g], run_len[g])
       IN  /\ prev_roll' = [prev_roll EXCEPT ![g] = <<roll>>]
           /\ run_len' = [run_len EXCEPT ![g] = len]
           /\ weight' = [weight EXCEPT ![g] = NewWeight(weight[g], len)]
    /\ pos' = [pos EXCEPT ![g] = pos[g] + 1]
    /\ UNCHANGED <<n, m, pc, permutations, it_state, indices, outcome, yielded>>

\* yield outcome, weight
Yield(g) ==
    /\ pc[g] = "scan"
    /\ pos[g] > Len(outcome[g])
    /\ yielded' = [yielded EXCEPT ![g] = Append(yielded[g], <<outcome[g], weight[g]>>)]
    /\ pc' = [pc EXCEPT ![g] = "next"]
    /\ UNCHANGED <<n, m, permutations, it_state, indices, outcome, weight,
                   run_len, prev_roll, pos>>

Step(g) ==
    \/ Begin(g)
    \/ NextOutcome(g)
    \/ ScanStep(g)
    \/ Yield(g)

\* One invocation, iterated to the end.
Next == Step(1)

Spec == Init /\ [][Next]_vars

\* Two invocations with the same arguments, iterated in any interleaving.
InitTwo == Init /\ n <= MaxN2 /\ m <= MaxM2

NextTwo == \E g \in Gens : Step(g)

SpecTwo == InitTwo /\ [][NextTwo]_vars

\* One invocation, with arguments small enough to enumerate every roll.
InitRolls == Init /\ n <= MaxRollN /\ m <= MaxRollM

SpecRolls == InitRolls /\ [][Next]_vars

----------------------------------------------------------------------------
\* Notions the properties are stated with.

Pairs(g) == {yielded[g][i] : i \in 1..Len(yielded[g])}

Outcomes(g) == {yielded[g][i][1] : i \in 1..Len(yielded[g])}

\* The invocation has just yielded a pair; LastPair is that pair.
JustYielded(g) == pc[g] = "next" /\ Len(yielded[g]) > 0
LastPair(g) == yielded[g][Len(yielded[g])]

\* Number of positions of the tuple t that hold the value v.
Count(t, v) == Cardinality({i \in 1..Len(t) : t[i] = v})

RECURSIVE ProductOver(_, _)
ProductOver(f, S) ==
    IF S = {} THEN 1
    ELSE LET x == CHOOSE y \in S : TRUE IN f[x] * ProductOver(f, S \ {x})

RECURSIVE SumOver(_, _)
SumOver(f, S) ==
    IF S = {} THEN 0
    ELSE LET x == CHOOSE y \in S : TRUE IN f[x] + SumOver(f, S \ {x})

\* n1! * n2! * ... * nk! over the distinct face values present in the tuple o.
MultiplicityFactorials(o) ==
    LET faces == {o[i] : i \in 1..Len(o)}
    IN  ProductOver([v \in faces |-> Factorial(Count(o, v))], faces)

\* Ascending sort of a tuple, by insertion.
RECURSIVE Insert(_, _)
Insert(x, s) ==
    IF s = <<>> THEN <<x>>
    ELSE IF x <= Head(s) THEN <<x>> \o s
    ELSE <<Head(s)>> \o Insert(x, Tail(s))

RECURSIVE SortAsc(_)
SortAsc(t) == IF Len(t) = 0 THEN <<>> ELSE Insert(Head(t), SortAsc(Tail(t)))

\* The rolls of N distinguishable dice with faces 1..M.
Rolls == [1..n -> 1..m]

\* C1: every yielded pair (outcome, weight) has weight = N! / (n1! * ... * nk!),
\* the division being exact, where n1..nk are the multiplicities of the face
\* values present in the outcome and sum to N; for N = 3, M = 2 the complete
\* run yields (1,1,1), (1,1,2), (1,2,2), (2,2,2) with weights 1, 3, 3, 1.
\* (The yielded pairs only change at a yield, so they are examined outside
\* the scan.)
C1_MultinomialWeight ==
    (n >= 1 /\ m >= 1 /\ pc[1] /= "scan") =>
        /\ \A p \in Pairs(1) :
               /\ p[2] * MultiplicityFactorials(p[1]) = Factorial(n)
               /\ SumOver([v \in 1..m |-> Count(p[1], v)], 1..m) = n
        /\ (n = 3 /\ m = 2 /\ pc[1] = "done") =>
               yielded[1] = << << <<1, 1, 1>>, 1 >>, << <<1, 1, 2>>, 3 >>,
                               << <<1, 2, 2>>, 3 >>, << <<2, 2, 2>>, 1 >> >>

C1_Witness ==
    /\ n = 4 /\ m >= 3 /\ pc[1] = "done"
    /\ << <<1, 1, 2, 3>>, 12 >> \in Pairs(1)

\* C2: the weight yielded with an outcome is the number of rolls of N
\* distinguishable dice (ordered N-tuples over 1..M) whose ascending sort is
\* that outcome.
C2_WeightCountsRolls ==
    (n >= 1 /\ m >= 1 /\ JustYielded(1)) =>
        LastPair(1)[2] = Cardinality({t \in Rolls : SortAsc(t) = LastPair(1)[1]})

C2_Witness ==
    /\ n = 3 /\ m >= 3 /\ JustYielded(1)
    /\ LastPair(1) = << <<1, 2, 3>>, 6 >>

\* The sum of the weights an invocation has yielded.
RECURSIVE SumWeightsBetween(_, _, _)
SumWeightsBetween(s, lo, hi) ==
    IF lo > hi THEN 0
    ELSE IF lo = hi THEN s[lo][2]
    ELSE LET mid == (lo + hi) \div 2
         IN  SumWeightsBetween(s, lo, mid) + SumWeightsBetween(s, mid + 1, hi)

SumWeights(g) == SumWeightsBetween(yielded[g], 1, Len(yielded[g]))

\* C3: the weights yielded by a complete run sum to M^N; for N = 2, M = 6 the
\* 21 weights sum to 36.
C3_WeightSum ==
    (n >= 1 /\ m >= 1 /\ pc[1] = "done") =>
        /\ SumWeights(1) = m ^ n
        /\ (n = 2 /\ m = 6) => SumWeights(1) = 36

C3_Witness ==
    /\ n = 2 /\ m = 6 /\ pc[1] = "done"
    /\ Len(yielded[1]) = 21
    /\ {<< <<1, 1>>, 1 >>, << <<1, 2>>, 2 >>, << <<6, 6>>, 1 >>} \subseteq Pairs(1)

\* Binomial coefficient, by Pascal's rule.
RECURSIVE Binomial(_, _)
Binomial(a, b) ==
    IF b < 0 \/ b > a THEN 0
    ELSE IF b = 0 \/ b = a THEN 1
    ELSE Binomial(a - 1, b - 1) + Binomial(a - 1, b)

NonDecreasing(t) == \A i \in 1..(Len(t) - 1) : t[i] <= t[i + 1]

\* C4: a complete run yields exactly C(M+N-1, N) pairs with pairwise distinct
\* outcomes, each a length-N tuple over 1..M, and the outcomes are exactly
\* the non-decreasing length-N sequences over 1..M.
C4_CountAndCoverage ==
    (n >= 1 /\ m >= 1 /\ pc[1] = "done") =>
        /\ Len(yielded[1]) = Binomial(m + n - 1, n)
        /\ Cardinality(Outcomes(1)) = Len(yielded[1])
        /\ \A o \in Outcomes(1) : Len(o) = n /\ \A i \in 1..n : o[i] \in 1..m
        /\ Outcomes(1) = {t \in Rolls : NonDecreasing(t)}

C4_Witness ==
    /\ n = 4 /\ m = 6 /\ pc[1] = "done"
    /\ Len(yielded[1]) = 126

\* Lexicographic order on tuples of the same length.
LexLeq(a, b) ==
    \/ a = b
    \/ \E k \in 1..Len(a) : a[k] < b[k] /\ \A j \in 1..(k - 1) : a[j] = b[j]

\* C5: every yielded outcome is a non-decreasing tuple, and each yielded
\* outcome is lexicographically >= the outcome yielded just before it.
C5_Ordering ==
    (n >= 1 /\ m >= 1 /\ pc[1] /= "scan") =>
        \A i \in 1..Len(yielded[1]) :
            /\ NonDecreasing(yielded[1][i][1])
            /\ i > 1 => LexLeq(yielded[1][i - 1][1], yielded[1][i][1])

C5_Witness ==
    /\ n = 3 /\ m = 3 /\ JustYielded(1)
    /\ Len(yielded[1]) >= 2
    /\ LastPair(1)[1] = <<2, 2, 2>>
    /\ yielded[1][Len(yielded[1]) - 1][1] = <<1, 3, 3>>

\* C6: two invocations with the same arguments, iterated in any interleaving,
\* yield the same pairs in the same order: at every moment the shorter of the
\* two sequences of yielded pairs is a prefix of the longer, both raise or
\* neither does, and both sequences are equal once both invocations are over.
C6_IndependentInvocations ==
    LET k == IF Len(yielded[1]) <= Len(yielded[2])
             THEN Len(yielded[1]) ELSE Len(yielded[2])
    IN  /\ SubSeq(yielded[1], 1, k) = SubSeq(yielded[2], 1, k)
        /\ ~(pc[1] = "raised" /\ pc[2] = "done")
        /\ ~(pc[1] = "done" /\ pc[2] = "raised")
        /\ (pc[1] = "done" /\ pc[2] = "done") => yielded[1] = yielded[2]

C6_Witness ==
    /\ n = 3 /\ m = 3
    /\ pc[1] = "scan" /\ pos[1] = 2 /\ Len(yielded[1]) = 2
    /\ pc[2] = "scan" /\ pos[2] = 3 /\ Len(yielded[2]) = 7

\* C7: for N = 1 a complete run yields exactly M pairs, each a singleton
\* tuple with weight 1, and the weights sum to M.
C7_SingleDie ==
    (n = 1 /\ m >= 1 /\ pc[1] = "done") =>
        /\ Len(yielded[1]) = m
        /\ \A p \in Pairs(1) : Len(p[1]) = 1 /\ p[2] = 1
        /\ SumWeights(1) = m

C7_Witness ==
    /\ n = 1 /\ m = 6 /\ pc[1] = "done"
    /\ Len(yielded[1]) = 6

\* The lengths of the maximal runs of equal values of a tuple, left to right.
RECURSIVE RunLengths(_)
RunLengths(t) ==
    IF Len(t) = 0 THEN <<>>
    ELSE LET rest == RunLengths(Tail(t))
         IN  IF Len(t) > 1 /\ t[1] = t[2]
             THEN <<Head(rest) + 1>> \o Tail(rest)
             ELSE <<1>> \o rest

\* The product of k! over every maximal run of k equal values.
RunFactorials(t) ==
    LET runs == RunLengths(t)
    IN  ProductOver([i \in 1..Len(runs) |-> Factorial(runs[i])], 1..Len(runs))

\* C8: the weight the incremental scan ends with equals N! divided in one
\* step by the product of k! over every maximal run of k equal values.
C8_IncrementalEqualsOneStep ==
    (n >= 1 /\ JustYielded(1)) =>
        LastPair(1)[2] = Factorial(n) \div RunFactorials(LastPair(1)[1])

C8_Witness ==
    /\ n = 4 /\ JustYielded(1)
    /\ LastPair(1) = << <<1, 1, 1, 2>>, 4 >>
    /\ RunLengths(LastPair(1)[1]) = <<3, 1>>

\* C9: whenever a step of the scan floor-divides the running weight by
\* run_len, the running weight is an exact multiple of run_len, and the
\* running weight is a positive integer after every step of the scan.
C9_ExactDivision ==
    [][ (n >= 1 /\ m >= 1 /\ pc[1] = "scan" /\ pos'[1] = pos[1] + 1) =>
            /\ run_len'[1] > 1 => weight[1] % run_len'[1] = 0
            /\ weight'[1] >= 1 ]_vars

C9_Witness ==
    /\ n = 4 /\ pc[1] = "scan" /\ pos[1] = 4
    /\ outcome[1] = <<1, 1, 1, 2>>
    /\ run_len[1] = 3 /\ weight[1] = 4

\* C10: for N = 0 and every M >= 0 the invocation raises no error and yields
\* exactly one pair, the empty outcome () with weight 1.
C10_NoDice ==
    n = 0 =>
        /\ pc[1] /= "raised"
        /\ Len(yielded[1]) <= 1
        /\ pc[1] = "done" => yielded[1] = << << <<>>, 1 >> >>

C10_Witness ==
    /\ n = 0 /\ m = 0 /\ pc[1] = "done"
    /\ Len(yielded[1]) = 1

====
